---- MODULE Spec2Model ----
(***************************************************************************)
(* A model of spatialstats.particles: the pair correlation function corr   *)
(* (particle_correlations.py), the spatial distribution function sdf       *)
(* (particle_cloud.py) and their Fourier transforms fourier_corr and       *)
(* structure_factor.                                                       *)
(*                                                                         *)
(* Number representation.  Positions, box sides, weights and rmin are      *)
(* integers.  rmax may be a half-integer (the default is max(boxsize)/2),  *)
(* so it is kept in half units: rmaxH = 2*rmax.  A norm is an irrational   *)
(* number in general, so _norm(x) is kept as its square NormSq(x) and      *)
(* every comparison of a norm is made between squares.  A float that may   *)
(* be NaN is a record [nan, v].  Angles are never computed: phi and theta  *)
(* are kept as the vector they are taken from, and their histogram bin is  *)
(* decided exactly from the signs and squares of its components.           *)
(* Orientations are integer multiples of the coordinate axes.  For these   *)
(* the normalisation is exact, but np.sin(np.arccos(-1)) and               *)
(* np.cos(np.arccos(0)) are not 0 in doubles: they are 2 eps and eps, with *)
(* eps = 6.123233995736766e-17.  A rotated component is therefore kept as  *)
(* v + e*eps, the integer v and the integer count e of eps, to first order *)
(* in eps; e decides the bin of phi when v is 0.                           *)
(***************************************************************************)
EXTENDS Integers, Sequences, FiniteSets, TLC

VARIABLES
    op,            \* the function called: "corr", "sdf", "fourier_corr", "structure_factor"
    pc,            \* position inside the call
    positions,     \* the caller's positions array (mutated in place by _impose_pbc)
    positions0,    \* its contents when the call was made
    boxsize,       \* the caller's boxsize
    orientations,  \* the caller's orientations argument: None or <<array>>
    weights,       \* the caller's weights argument: None or <<array>>
    args,          \* the scalar arguments: z, rmin, rmax, nr, nphi, ntheta
    loc,           \* the locals after argument handling: p, w, rmin, rmaxH, nr, nphi, ntheta
    pairs,         \* the pair array handed to the displacement kernel
    rbuff,         \* the sample buffer: one row per ordered pair
    wbuff,         \* the weight buffer
    count,         \* the histogram: cell -> count
    out,           \* the returned tuple (names of its items)
    err,           \* the exception that ended the call, "" if none
    ran,           \* the stages that have run
    fc,            \* the state of a fourier_corr / structure_factor call
    iter,          \* the parallel kernel: per iteration idx1, the idx2 it runs next
    writes         \* the parallel kernel: per buffer slot, the iterations that wrote it

vars == <<op, pc, positions, positions0, boxsize, orientations, weights, args,
          loc, pairs, rbuff, wbuff, count, out, err, ran, fc, iter, writes>>

-----------------------------------------------------------------------------
(* Bounds of the model *)

\* Largest number of particles.
MaxN == 3
\* Largest box side; the sides are drawn from {MinSide, MaxSide}.
MaxSide == 5
\* Largest number of box lengths a coordinate may lie outside the box.
MaxWrap == 2

\* Smallest box side.
MinSide == 3

-----------------------------------------------------------------------------
(* Values *)

\* Python's None, and a supplied optional argument.
None == <<>>
Some(x) == <<x>>
IsNone(x) == x = <<>>
Val(x) == x[1]

Range(s) == {s[k] : k \in 1..Len(s)}

Max(a, b) == IF a >= b THEN a ELSE b
Abs(a) == IF a < 0 THEN -a ELSE a
Sgn(n) == IF n > 0 THEN 1 ELSE IF n < 0 THEN -1 ELSE 0

RECURSIVE SeqMax(_)
SeqMax(s) == IF Len(s) = 1 THEN s[1] ELSE Max(s[1], SeqMax(Tail(s)))

RECURSIVE SeqSum(_)
SeqSum(s) == IF s = <<>> THEN 0 ELSE s[1] + SeqSum(Tail(s))

RECURSIVE Pow(_, _)
Pow(b, e) == IF e = 0 THEN 1 ELSE b * Pow(b, e - 1)

\* The integer square root of a perfect square.
Sqrt(n) == CHOOSE k \in 0..n : k * k = n

\* A float that may be NaN.
Zeros(n) == [k \in 1..n |-> 0]

Num(v) == [nan |-> FALSE, v |-> v]
NaN == [nan |-> TRUE, v |-> 0]

\* _dot: the dot product of two vectors.
Dot(a, b) == SeqSum([k \in 1..Len(a) |-> a[k] * b[k]])

\* _norm(x) = sqrt(_dot(x, x)), kept as its square.
NormSq(x) == Dot(x, x)

\* _matmul: C[i,j] = A[i,:] . B[:,j]
MatMul(A, B) ==
    [i \in 1..Len(A) |-> [j \in 1..Len(A[1]) |-> Dot(A[i], [k \in 1..Len(B) |-> B[k][j]])]]

-----------------------------------------------------------------------------
(* _impose_pbc *)

\* The first loop: while p[i] < 0: p[i] = p[i] + boxsize[i]
RECURSIVE WrapUp(_, _)
WrapUp(c, b) == IF c < 0 THEN WrapUp(c + b, b) ELSE c

\* The second loop: while p[i] > boxsize[i]: p[i] = p[i] - boxsize[i]
RECURSIVE WrapDown(_, _)
WrapDown(c, b) == IF c > b THEN WrapDown(c - b, b) ELSE c

\* One component after both loops.
WrapComp(c, b) == WrapDown(WrapUp(c, b), b)

\* _impose_pbc(coords, boxsize): every row, the first len(boxsize) components.
ImposePbc(coords, box) ==
    [j \in 1..Len(coords) |->
        [i \in 1..Len(coords[j]) |->
            IF i <= Len(box) THEN WrapComp(coords[j][i], box[i]) ELSE coords[j][i]]]

-----------------------------------------------------------------------------
(* _get_pairs: scipy.spatial.cKDTree(coords, boxsize).query_pairs(r=rmax) *)

\* cKDTree refuses data outside the periodic box: a component < 0 or >= boxsize.
TreeRejects(coords, box) ==
    \E j \in 1..Len(coords) : \E i \in 1..Len(box) :
        coords[j][i] < 0 \/ coords[j][i] >= box[i]

\* The tree's periodic distance between two points of the box, squared.
PeriodicDistSq(a, b, box) ==
    SeqSum([i \in 1..Len(box) |->
        LET m == Abs(a[i] - b[i])
            w == IF 2 * m > box[i] THEN box[i] - m ELSE m
        IN  w * w])

\* query_pairs: the unordered pairs i < j at periodic distance <= rmax.
QueryPairs(coords, box, rmaxH) ==
    {pr \in (1..Len(coords)) \X (1..Len(coords)) :
        /\ pr[1] < pr[2]
        /\ 4 * PeriodicDistSq(coords[pr[1]], coords[pr[2]], box) <= rmaxH * rmaxH}

\* The orders in which a set of pairs can be laid out as an array.
Orderings(S) ==
    {s \in [1..Cardinality(S) -> S] : \A a, b \in 1..Cardinality(S) : a # b => s[a] # s[b]}

\* particle_cloud._get_pairs: the pairs, then the same pairs with columns swapped.
Doubled(temp) == temp \o [k \in 1..Len(temp) |-> <<temp[k][2], temp[k][1]>>]

-----------------------------------------------------------------------------
(* _closest_image *)

\* np.argmin: the first index of the smallest entry.
ArgMin(d) == CHOOSE k \in 1..Len(d) :
                /\ \A m \in 1..Len(d) : d[k] <= d[m]
                /\ \A m \in 1..(k - 1) : d[m] > d[k]

\* _closest_point1d(target, positions): the position closest to target.
ClosestPoint1d(target, pts) ==
    pts[ArgMin([k \in 1..Len(pts) |-> Abs(pts[k] - target)])]

\* _closest_image(target, source, boxsize): per axis, the closest of
\* source, source - boxsize, source + boxsize.
ClosestImage(target, source, box) ==
    [i \in 1..Len(target) |->
        ClosestPoint1d(target[i], <<source[i], source[i] - box[i], source[i] + box[i]>>)]

\* r_ij of the kernel before any rotation: r_j - r_i, replaced by
\* image - r_i when its norm is >= rmax.
RawDisplacement(r_i, r_j, box, rmaxH) ==
    LET d == [k \in 1..Len(r_i) |-> r_j[k] - r_i[k]]
    IN  IF 4 * NormSq(d) >= rmaxH * rmaxH
        THEN LET image == ClosestImage(r_i, r_j, box)
             IN  [k \in 1..Len(r_i) |-> image[k] - r_i[k]]
        ELSE d

-----------------------------------------------------------------------------
(* Rotation *)

\* A double v + e*eps, eps = 6.123233995736766e-17 = np.cos(np.arccos(0)).
Ex(v, e) == [v |-> v, e |-> e]

\* x * n, x + y and -x, n an integer.
ExScale(x, n) == Ex(x.v * n, x.e * n)
ExAdd(x, y) == Ex(x.v + y.v, x.e + y.e)
ExNeg(x) == Ex(-x.v, -x.e)

\* _dot(row, d) for a row of doubles and an integer vector d.
RECURSIVE ExDot(_, _)
ExDot(row, d) ==
    IF row = <<>> THEN Ex(0, 0)
    ELSE ExAdd(ExScale(row[1], d[1]), ExDot(Tail(row), Tail(d)))

\* _matvec(A, d), R @ r_ij
ExMatVec(A, d) == [i \in 1..Len(A) |-> ExDot(A[i], d)]

\* np.sin(np.arccos(c)) for c in {-1, 0, 1}: 1.2246467991473532e-16 = 2 eps
\* for c = -1, 1.0 for c = 0, 0.0 for c = 1.
SinArccos(c) == Ex(Sqrt(1 - c * c), IF c = -1 THEN 2 ELSE 0)

\* np.cos(np.arccos(c)) for c in {-1, 0, 1}: 6.123233995736766e-17 = eps for
\* c = 0, c itself for c = -1 and c = 1.
CosArccos(c) == Ex(c, IF c = 0 THEN 1 ELSE 0)

\* p[i] / _norm(p[i]): an array divided by a scalar; 0/0 is NaN.
UnitVec(p) ==
    IF NormSq(p) = 0 THEN NaN
    ELSE Num([k \in 1..Len(p) |-> p[k] \div Sqrt(NormSq(p))])

Eye3 == <<<<1, 0, 0>>, <<0, 1, 0>>, <<0, 0, 1>>>>

\* particle_correlations._rotation_matrix(p), p a unit vector: cos = p[-1]
\* as it is, sin = np.sin(np.arccos(p[-1])).
RotationMatrix(p) ==
    LET cos == Ex(p[Len(p)], 0)
        sin == SinArccos(p[Len(p)])
    IN  IF Len(p) = 2
        THEN Num(<<<<cos, ExNeg(sin)>>, <<sin, cos>>>>)
        ELSE LET k0 == <<p[2], -p[1], 0>>
                 n  == NormSq(k0)
             IN  IF n = 0
                 THEN NaN  \* k /= _norm(k) is 0/0: k, K and R are NaN throughout
                 ELSE LET k  == [a \in 1..3 |-> k0[a] \div Sqrt(n)]
                          K  == <<<<0, -k[3], k[2]>>,
                                  <<k[3], 0, -k[1]>>,
                                  <<-k[2], k[1], 0>>>>
                          KK == MatMul(K, K)
                      IN  Num([a \in 1..3 |-> [b \in 1..3 |->
                                ExAdd(ExAdd(Ex(Eye3[a][b], 0), ExScale(sin, K[a][b])),
                                      ExScale(ExAdd(Ex(1, 0), ExNeg(cos)), KK[a][b]))]])

\* particle_cloud._get_displacements: the rotation built inline, from
\* angle = np.arccos(p_i[-1]), c = np.cos(angle), s = np.sin(angle).
RotationCloud(p) ==
    LET c == CosArccos(p[Len(p)])
        s == SinArccos(p[Len(p)])
        o == Ex(0, 0)
    IN  IF Len(p) = 2
        THEN Num(<<<<c, ExNeg(s)>>, <<s, c>>>>)
        ELSE Num(<<<<c, ExNeg(s), o>>, <<s, c, o>>, <<o, o, Ex(1, 0)>>>>)

\* A displacement that was not rotated: integers, no eps.
Exact(d) == [nan |-> FALSE, v |-> d, e |-> Zeros(Len(d))]

\* The rotated displacement: p_i = p[i]/norm, R, R r_ij; v its integer parts
\* and e its counts of eps.
Rotated(o, p_i_raw, d) ==
    LET p_i == UnitVec(p_i_raw)
    IN  IF p_i.nan THEN NaN
        ELSE LET R == IF o = "corr" THEN RotationMatrix(p_i.v) ELSE RotationCloud(p_i.v)
             IN  IF R.nan THEN NaN
                 ELSE LET rv == ExMatVec(R.v, d)
                      IN  [nan |-> FALSE,
                           v |-> [k \in 1..Len(rv) |-> rv[k].v],
                           e |-> [k \in 1..Len(rv) |-> rv[k].e]]

-----------------------------------------------------------------------------
(* The norm of a rotated displacement, in doubles *)

\* The floor of log2(n), n >= 1.
RECURSIVE Log2(_)
Log2(n) == IF n < 2 THEN 0 ELSE 1 + Log2(n \div 2)

IsSquare(n) == \E k \in 0..n : k * k = n

\* The distance of a double from an integer is counted in units of 2^-53.
\* The spacing of the doubles at n + off * 2^-53, n an integer >= 1: 2^(k-52)
\* in [2^k, 2^(k+1)), and half of it just under n = 2^k.
Ulp(n, off) ==
    LET k == Log2(n)
    IN  IF off < 0 /\ Pow(2, k) = n THEN Pow(2, k) ELSE Pow(2, k + 1)

\* eps = 6.123233995736766e-17 is 0.551532 * 2^-53.
EpsNum == 551532
EpsDen == 1000000

\* One term of _dot(R[k], r_ij) is an integer v # 0 and the other e*eps: the
\* sum is rounded to the nearest double. Its distance from v.
FlResidue(v, e) ==
    IF e = 0 THEN 0
    ELSE LET ee == Sgn(v) * e
             U  == Ulp(Abs(v), ee)
         IN  Sgn(v) * U * ((2 * ee * EpsNum + EpsDen * U) \div (2 * EpsDen * U))

\* a*a in doubles for a = v + u * 2^-53, as n + off * 2^-53: the exact square
\* is v*v + 2*v*u * 2^-53 and a little more, which decides a tie upwards.
FlSquare(v, u) ==
    IF u = 0 THEN [n |-> v * v, off |-> 0]
    ELSE LET o == 2 * v * u
             U == Ulp(v * v, o)
         IN  [n |-> v * v, off |-> U * ((2 * o + U) \div (2 * U))]

\* dot += t in doubles: the sum rounded to the nearest double, a tie to the
\* even one.
FlAdd(dot, t) ==
    LET n   == dot.n + t.n
        off == dot.off + t.off
    IN  IF n = 0 THEN [n |-> 0, off |-> 0]
        ELSE LET U == Ulp(n, off)
                 q == off \div U
                 r == off - q * U
                 c == IF 2 * r < U \/ (2 * r = U /\ q % 2 = 0) THEN q ELSE q + 1
             IN  [n |-> n, off |-> U * c]

\* _dot(a, a) for the rotated displacement a = v + e*eps: dot = 0, then
\* dot += a[k]*a[k] for k = 0, 1, ... The square of a component that is
\* e*eps alone is below 1e-28 and leaves the sum as it is.
RECURSIVE FlSumSq(_, _, _)
FlSumSq(v, e, k) ==
    IF k = 0 THEN [n |-> 0, off |-> 0]
    ELSE FlAdd(FlSumSq(v, e, k - 1),
               IF v[k] = 0 THEN [n |-> 0, off |-> 0]
               ELSE FlSquare(v[k], FlResidue(v[k], e[k])))

\* _norm(R r_ij) = np.sqrt(_dot(a, a)) less the integer norm V of the integer
\* parts, in units of 2^-53, when that norm is an integer: the square root of
\* V*V + t * 2^-53 is V + t/(2V) * 2^-53 and a little less, which decides a
\* tie downwards. A norm that is not an integer is irrational, lies on no
\* edge of the bins, and its rounding decides no bin: 0 stands for it.
\* particle_cloud's np.linalg.norm(R @ r_ij) is taken to round the same way.
NormUlps(rij) ==
    LET s == FlSumSq(rij.v, rij.e, Len(rij.v))
    IN  IF s.off = 0 \/ ~IsSquare(s.n) THEN 0
        ELSE LET V == Sqrt(s.n)
                 U == Ulp(V, s.off)
                 d == 2 * V * U
             IN  U * (-((d - 2 * s.off) \div (2 * d)))

-----------------------------------------------------------------------------
(* Arithmetic on the significands of doubles *)

\* A natural number as its bits, the lowest first and the highest a 1.
RECURSIVE Bits(_)
Bits(n) == IF n = 0 THEN <<>> ELSE <<n % 2>> \o Bits(n \div 2)

\* The w lowest bits of n.
Low(n, w) == SubSeq(Bits(n + Pow(2, w)), 1, w)

\* a without the zeros at its top.
RECURSIVE Trim(_)
Trim(a) == IF a = <<>> \/ a[Len(a)] = 1 THEN a ELSE Trim(SubSeq(a, 1, Len(a) - 1))

\* a * 2^k
Shl(a, k) == IF a = <<>> THEN a ELSE Zeros(k) \o a

\* The arithmetic goes by limbs of 12 bits, as C's goes by words.
LimbBits == 12
LimbBase == Pow(2, LimbBits)
Pow2 == [i \in 0..LimbBits |-> Pow(2, i)]

\* Limb j of a, from j = 1 for the lowest.
Limb(a, j) ==
    SeqSum([i \in 1..LimbBits |->
                IF LimbBits * (j - 1) + i <= Len(a)
                THEN a[LimbBits * (j - 1) + i] * Pow2[i - 1] ELSE 0])

Limbs(a) == (Len(a) + LimbBits - 1) \div LimbBits

\* The limbs j..n of a + b + c, and the carry at the top.
RECURSIVE AddLimbs(_, _, _, _, _)
AddLimbs(a, b, c, j, n) ==
    IF j > n THEN Bits(c)
    ELSE LET s == Limb(a, j) + Limb(b, j) + c
         IN  Low(s % LimbBase, LimbBits) \o AddLimbs(a, b, s \div LimbBase, j + 1, n)

\* a + b
BitsAdd(a, b) == Trim(AddLimbs(a, b, 0, 1, Max(Limbs(a), Limbs(b))))

\* The limbs j..n of a - b - c, c the borrow, for a >= b.
RECURSIVE SubLimbs(_, _, _, _, _)
SubLimbs(a, b, c, j, n) ==
    IF j > n THEN <<>>
    ELSE LET s == LimbBase + Limb(a, j) - Limb(b, j) - c
         IN  Low(s % LimbBase, LimbBits) \o
             SubLimbs(a, b, IF s < LimbBase THEN 1 ELSE 0, j + 1, n)

\* a - b for a >= b
BitsSub(a, b) == Trim(SubLimbs(a, b, 0, 1, Limbs(a)))

\* The limbs j and above of a * n + c, for 0 <= n < 2^19.
RECURSIVE MulLimbs(_, _, _, _)
MulLimbs(a, n, c, j) ==
    IF j > Limbs(a) THEN Bits(c)
    ELSE LET s == Limb(a, j) * n + c
         IN  Low(s % LimbBase, LimbBits) \o MulLimbs(a, n, s \div LimbBase, j + 1)

\* a * n
BitsMul(a, n) == Trim(MulLimbs(a, n, 0, 1))

\* a < b on the limbs j down to 1.
RECURSIVE LessLimbs(_, _, _)
LessLimbs(a, b, j) ==
    IF j = 0 THEN FALSE
    ELSE IF Limb(a, j) # Limb(b, j) THEN Limb(a, j) < Limb(b, j)
    ELSE LessLimbs(a, b, j - 1)

\* a < b
BitsLess(a, b) ==
    IF Len(a) # Len(b) THEN Len(a) < Len(b) ELSE LessLimbs(a, b, Limbs(a))

\* The long division of the limbs j down to 1 of a by n, 1 <= n < 2^19, rem
\* the remainder of the limbs above them: their quotient and the remainder.
RECURSIVE DivLimbs(_, _, _, _)
DivLimbs(a, n, rem, j) ==
    IF j = 0 THEN [q |-> <<>>, rem |-> rem]
    ELSE LET x    == rem * LimbBase + Limb(a, j)
             rest == DivLimbs(a, n, x % n, j - 1)
         IN  [q |-> rest.q \o Low(x \div n, LimbBits), rem |-> rest.rem]

\* a \div n and a % n
BitsDiv(a, n) ==
    LET d == DivLimbs(a, n, 0, Limbs(a))
    IN  [q |-> Trim(d.q), rem |-> d.rem]

\* The significand of a double has 53 bits.
Significand == 53

\* A result rounded to a double: to its 53 highest bits, to the nearest and a
\* tie to the even one; sticky says that the exact result is a little more.
FlRound(a, sticky) ==
    IF Len(a) <= Significand THEN a
    ELSE LET s    == Len(a) - Significand
             kept == SubSeq(a, s + 1, Len(a))
             more == sticky \/ \E k \in 1..(s - 1) : a[k] = 1
             up   == a[s] = 1 /\ (more \/ kept[1] = 1)
         IN  Zeros(s) \o (IF up THEN BitsAdd(kept, <<1>>) ELSE kept)

-----------------------------------------------------------------------------
(* Bins: r_n, phi_m, theta_l and np.histogramdd *)

\* The axes that are binned: those with more than one bin, in the order r, phi, theta.
Binned(nr, nphi, ntheta) ==
    (IF nr > 1 THEN <<"r">> ELSE <<>>) \o
    (IF nphi > 1 THEN <<"phi">> ELSE <<>>) \o
    (IF ntheta > 1 THEN <<"theta">> ELSE <<>>)

\* r_n = np.linspace(rmin, rmax, nr+1): edge k, multiplied by 2*nr.
REdge(k, rmin, rmaxH, nr) == 2 * rmin * nr + k * (rmaxH - 2 * rmin)

\* r_n[k] = norm, for a norm given by its square (edges are >= 0).
REq(nsq, k, rmin, rmaxH, nr) ==
    REdge(k, rmin, rmaxH, nr) * REdge(k, rmin, rmaxH, nr) = 4 * nr * nr * nsq

\* Doubles are compared as integers, in units of 2^-EdgeScale: a quotient by
\* nr < 2^17 then has more than 53 bits.
EdgeScale == 72

\* r_n[k] as np.linspace computes it in doubles: step = (rmax - rmin)/nr,
\* then k*step + rmin, each operation rounded, and the last edge set to rmax.
EdgeBits(k, rmin, rmaxH, nr) ==
    IF k = nr THEN Shl(Bits(rmaxH), EdgeScale - 1)
    ELSE LET d    == BitsDiv(Shl(Bits(rmaxH - 2 * rmin), EdgeScale), 2 * nr)
             step == FlRound(d.q, d.rem # 0)
         IN  FlRound(BitsAdd(FlRound(BitsMul(step, k), FALSE),
                             Shl(Bits(rmin), EdgeScale)), FALSE)

\* A step with at most ExactPlaces binary places is a double, and so are its
\* multiples and their sums with rmin.
ExactPlaces == 20

\* np.linspace rounds nothing in r_n[k]: the first edge is rmin, the last is
\* rmax, and the others are exact when the step is.
EdgeExact(k, rmin, rmaxH, nr) ==
    k = 0 \/ k = nr \/ ((rmaxH - 2 * rmin) * Pow(2, ExactPlaces)) % (2 * nr) = 0

\* The stored norm V + w * 2^-53.
NormBits(V, w) ==
    IF w >= 0 THEN BitsAdd(Shl(Bits(V), EdgeScale), Shl(Bits(w), EdgeScale - Significand))
    ELSE BitsSub(Shl(Bits(V), EdgeScale), Shl(Bits(-w), EdgeScale - Significand))

\* r_n[k] <= norm for the norm stored in the row and the edge as np.linspace
\* gives it. Both are within a few 2^-53 of their exact values, which decide
\* unless they are equal; they are equal at an integer norm only, and then
\* the doubles decide (the norm's alone where the edge is exact).
NormGe(rij, k, rmin, rmaxH, nr) ==
    LET edge == REdge(k, rmin, rmaxH, nr) * REdge(k, rmin, rmaxH, nr)
        norm == 4 * nr * nr * NormSq(rij.v)
    IN  \/ edge < norm
        \/ /\ edge = norm
           /\ IF EdgeExact(k, rmin, rmaxH, nr) THEN NormUlps(rij) >= 0
              ELSE ~BitsLess(NormBits(Sqrt(NormSq(rij.v)), NormUlps(rij)),
                             EdgeBits(k, rmin, rmaxH, nr))

\* r_n[k] = norm for the last edge, which is rmax itself.
NormEq(rij, k, rmin, rmaxH, nr) ==
    REq(NormSq(rij.v), k, rmin, rmaxH, nr) /\ NormUlps(rij) = 0

\* phi_m = 2*pi*linspace(0, 1, nphi+1) - pi, for nphi in {1, 2, 4}: edge m in
\* quarter turns, from -2 (-pi) to 2 (pi).
PhiEdge(m, nphi) == -2 + m * (4 \div nphi)

\* The sign of the double v + e*eps.
ExSgn(x) == IF x.v # 0 THEN Sgn(x.v) ELSE Sgn(x.e)

\* edge <= np.arctan2(y, x) in doubles, the edge q in quarter turns, x and y
\* doubles v + e*eps. The quadrant decides, by the signs of x and y, except
\* beside an edge, where the rounding of arctan2 does. The edges -pi/2 and
\* pi/2 are the double 1.5707963267948966, which is eps below pi/2, and the
\* doubles there are 2^-52 = 3.6263 eps apart: for x = e*eps and an integer
\* y, arctan2 gives pi/2 - (e/y) eps for y > 0, rounded to the edge or above
\* when e/y <= 1 + 1.81313, and -pi/2 + (e/|y|) eps for y < 0, rounded to the
\* edge or above when e/|y| >= 1 - 1.81313. The last edge is the double
\* 3.141592653589793, 2 eps below pi, with doubles 2^-51 apart: for x < 0
\* and y = e*eps arctan2 gives it when 0 <= e/|x| <= 2 + 3.626, and for
\* x = e*eps < 0 when y is 0.
PhiGe(x, y, q) ==
    LET sx == ExSgn(x)
        sy == ExSgn(y)
    IN  CASE q = -2 -> TRUE
          [] q = -1 -> IF x.v = 0 /\ y.v < 0
                       THEN 100000 * x.e >= -81313 * (-y.v)
                       ELSE sy >= 0 \/ sx >= 0
          [] q = 0  -> sy >= 0
          [] q = 1  -> IF x.v = 0 /\ y.v > 0
                       THEN 100000 * x.e <= 281313 * y.v
                       ELSE (sy > 0 /\ sx <= 0) \/ (sy = 0 /\ sx < 0)
          [] q = 2  -> IF x.v = 0
                       THEN x.e < 0 /\ y.v = 0 /\ y.e = 0
                       ELSE x.v < 0 /\ y.v = 0 /\ y.e >= 0
                            /\ 1000 * y.e <= 5626 * (-x.v)

\* theta_l = pi*linspace(0, 1, ntheta+1), for ntheta in {1, 2}: edge l in
\* quarter turns, from 0 to 2 (pi).
ThetaEdge(l, ntheta) == l * (2 \div ntheta)

\* edge <= np.arccos(z / norm), the edge h in quarter turns, norm > 0.
ThetaGe(z, nsq, h) ==
    CASE h = 0 -> TRUE
      [] h = 1 -> z <= 0
      [] h = 2 -> z < 0 /\ z * z = nsq

\* np.histogramdd's bin of a value on one axis with n bins: the number of edges
\* <= the value, less one; a value on the last edge goes to the last bin.
\* ge[k] says edge k <= value, for k in 0..n (as ge[k+1]).
BinOf(ge, onLast, n) ==
    IF onLast THEN n - 1 ELSE Cardinality({k \in 1..(n + 1) : ge[k]}) - 1

\* The bin of a sample row on an axis; a bin outside 0..n-1 is an outlier.
\* A NaN compares false with every edge.
AxisBin(axis, row, c) ==
    IF row.rij.nan THEN -1
    ELSE LET v == row.rij.v
             nsq == NormSq(v)
         IN  CASE axis = "r" ->
                    BinOf([k \in 1..(c.nr + 1) |->
                                NormGe(row.rij, k - 1, c.rmin, c.rmaxH, c.nr)],
                          NormEq(row.rij, c.nr, c.rmin, c.rmaxH, c.nr), c.nr)
               [] axis = "phi" ->
                    LET x == Ex(v[1], row.rij.e[1])
                        y == Ex(v[2], row.rij.e[2])
                    IN  BinOf([k \in 1..(c.nphi + 1) |-> PhiGe(x, y, PhiEdge(k - 1, c.nphi))],
                              PhiGe(x, y, PhiEdge(c.nphi, c.nphi)), c.nphi)
               [] axis = "theta" ->
                    IF row.thetaNaN THEN -1
                    ELSE BinOf([k \in 1..(c.ntheta + 1) |->
                                    ThetaGe(v[3], nsq, ThetaEdge(k - 1, c.ntheta))],
                               ThetaGe(v[3], nsq, ThetaEdge(c.ntheta, c.ntheta)), c.ntheta)

AxisCount(axis, c) ==
    CASE axis = "r" -> c.nr [] axis = "phi" -> c.nphi [] axis = "theta" -> c.ntheta

\* The cell of a row over the binned axes.
CellOf(row, axes, c) == [a \in 1..Len(axes) |-> AxisBin(axes[a], row, c)]

\* The cells of the grid: one index per binned axis.
Cells(axes, c) ==
    {cell \in [1..Len(axes) -> 0..(Max(Max(c.nr, c.nphi), c.ntheta) - 1)] :
        \A a \in 1..Len(axes) : cell[a] < AxisCount(axes[a], c)}

\* np.histogramdd(rij, bins, weights): per cell the number of rows in it, or
\* the sum of their weights. Rows with an outlier on some axis are in no cell.
Histogram(rows, wts, axes, c) ==
    LET cells == [k \in 1..Len(rows) |-> CellOf(rows[k], axes, c)]
    IN  [cell \in Cells(axes, c) |->
            SeqSum([k \in 1..Len(rows) |->
                IF cells[k] = cell
                THEN (IF wts = <<>> THEN 1 ELSE wts[k])
                ELSE 0])]

-----------------------------------------------------------------------------
(* corr and sdf: argument handling *)

\* arr.shape of a two-dimensional array.
Shape(arr) == <<Len(arr), Len(arr[1])>>

\* ConfigError without the check of the weights' shape.
ConfigErrorNoWeights(o, pos, ori, w) ==
    LET N == Shape(pos)[1]
        ndim == Shape(pos)[2]
    IN  IF ndim \notin {2, 3} THEN "Dimension of space must be 2 or 3"
        ELSE IF ~IsNone(ori) /\ Shape(Val(ori)) # <<N, ndim>>
             THEN "Shape of orientations must match positions array"
        ELSE ""

\* The ValueError raised by the argument checks, "" if none: the dimension of
\* space, then the shape of orientations, then (corr only) the shape of weights.
ConfigError(o, pos, ori, w) ==
    LET N == Shape(pos)[1]
        ndim == Shape(pos)[2]
    IN  IF ndim \notin {2, 3} THEN "Dimension of space must be 2 or 3"
        ELSE IF ~IsNone(ori) /\ Shape(Val(ori)) # <<N, ndim>>
             THEN "Shape of orientations must match positions array"
        ELSE IF o = "corr" /\ ~IsNone(w) /\ Shape(Val(w)) # <<N, ndim>>
             THEN "Shape of weights must match positions array"
        ELSE ""

\* n = 1 if n is None or n < 1 else n
BinArg(n) == IF IsNone(n) \/ Val(n) < 1 THEN 1 ELSE Val(n)

\* RminArg that takes no rmin from the caller: rmin = 0.
RminArgZero(rmin) == 0

\* rmin = 0 if rmin is None else rmin
RminArg(rmin) == IF IsNone(rmin) THEN 0 ELSE Val(rmin)

\* CorrLocals with placeholders of the shape of positions: np.zeros((N, ndim)).
CorrLocalsTallPlaceholder(pos, box, ori, w, a) ==
    LET N == Shape(pos)[1]
        ndim == Shape(pos)[2]
    IN  [p      |-> IF IsNone(ori) THEN [k \in 1..N |-> Zeros(ndim)] ELSE Val(ori),
         w      |-> IF IsNone(w) THEN [k \in 1..N |-> Zeros(ndim)] ELSE Val(w),
         rmin   |-> RminArg(a.rmin),
         rmaxH  |-> IF IsNone(a.rmax) THEN SeqMax(box) ELSE 2 * Val(a.rmax),
         nr     |-> BinArg(a.nr),
         nphi   |-> BinArg(a.nphi),
         ntheta |-> IF ndim = 2 THEN 1 ELSE BinArg(a.ntheta)]

\* corr's locals after its argument handling.
CorrLocals(pos, box, ori, w, a) ==
    LET ndim == Shape(pos)[2]
    IN  [p      |-> IF IsNone(ori) THEN <<Zeros(ndim)>> ELSE Val(ori),
         w      |-> IF IsNone(w) THEN <<Zeros(ndim)>> ELSE Val(w),
         rmin   |-> RminArg(a.rmin),
         rmaxH  |-> IF IsNone(a.rmax) THEN SeqMax(box) ELSE 2 * Val(a.rmax),
         nr     |-> BinArg(a.nr),
         nphi   |-> BinArg(a.nphi),
         ntheta |-> IF ndim = 2 THEN 1 ELSE BinArg(a.ntheta)]

\* sdf's locals: no weights, an empty array for absent orientations, and nr
\* as given, below 1 too (nr = None, which the kernel refuses before any
\* use of it, is held as 0).
SdfLocals(pos, box, ori, a) ==
    LET ndim == Shape(pos)[2]
    IN  [p      |-> IF IsNone(ori) THEN <<>> ELSE Val(ori),
         w      |-> <<>>,
         rmin   |-> RminArg(a.rmin),
         rmaxH  |-> IF IsNone(a.rmax) THEN SeqMax(box) ELSE 2 * Val(a.rmax),
         nr     |-> IF IsNone(a.nr) THEN 0 ELSE Val(a.nr),
         nphi   |-> IF IsNone(a.nphi) THEN 1 ELSE Val(a.nphi),
         ntheta |-> IF IsNone(a.ntheta) \/ ndim = 2 THEN 1 ELSE Val(a.ntheta)]

NoLocals == [p |-> <<>>, w |-> <<>>, rmin |-> 0, rmaxH |-> 0, nr |-> 1, nphi |-> 1, ntheta |-> 1]

-----------------------------------------------------------------------------
(* _get_displacements *)

\* rotate = True if p.shape == r.shape else False
Rotate(p, r) == p # <<>> /\ Shape(p) = Shape(r)

\* Slot without the stride: the second ordering of a pair is written next to
\* the first.
SlotNoStride(idx1, idx2, nthreads) == idx1 + idx2

\* The slot of the buffers written for pair idx1 and ordering idx2 (0 or 1):
\* index = idx1 + nthreads*idx2, with idx1 counted from 1 here.
Slot(idx1, idx2, nthreads) == idx1 + nthreads * idx2

\* Ordered without the reversal: both orderings read the pair as stored.
OrderedNoSwap(pair, idx2) == pair

\* i, j = pair if idx2 == 0 else pair[::-1]
Ordered(pair, idx2) == IF idx2 = 0 THEN pair ELSE <<pair[2], pair[1]>>

\* One iteration of the kernel's loop body for the ordered pair (i, j): the
\* displacement d before rotation, r_ij after it, and whether theta, if
\* binned, is NaN (r_ij[2] / norm with a NaN or a zero norm).
Sample(o, ij, r, box, c) ==
    LET d   == RawDisplacement(r[ij[1]], r[ij[2]], box, c.rmaxH)
        rij == IF Rotate(c.p, r) THEN Rotated(o, c.p[ij[1]], d) ELSE Exact(d)
    IN  [i |-> ij[1], j |-> ij[2], d |-> d, rij |-> rij,
         thetaNaN |-> c.ntheta > 1 /\ (rij.nan \/ NormSq(rij.v) = 0)]

\* r_ij[2] / norm divides a number by a zero norm.
ZeroDivision(row, c) == c.ntheta > 1 /\ ~row.rij.nan /\ NormSq(row.rij.v) = 0

\* A row of the buffer as allocated: np.zeros.
ZeroRow == [i |-> 0, j |-> 0, d |-> <<>>, rij |-> Exact(<<>>), thetaNaN |-> FALSE]

\* corr's kernel: for idx1 in prange(nthreads), for idx2 in range(2), fill
\* slot idx1 + nthreads*idx2.
CorrRows(prs, r, box, c) ==
    LET n == Len(prs)
        W == {w \in (1..n) \X {0, 1} : TRUE}
    IN  [s \in 1..(2 * n) |->
            IF \E w \in W : Slot(w[1], w[2], n) = s
            THEN LET w == CHOOSE w \in W : Slot(w[1], w[2], n) = s
                 IN  Sample("corr", Ordered(prs[w[1]], w[2]), r, box, c)
            ELSE ZeroRow]

\* wbuff[index] = _dot(w[i], w[j])**z, when weights were supplied
\* (weights.shape[0] > 1 at allocation, wbuff.size > 1 in the kernel).
CorrWeights(rows, c, z) ==
    IF Len(c.w) > 1 /\ Len(rows) > 1
    THEN [s \in 1..Len(rows) |->
            IF rows[s].i = 0 THEN 0 ELSE Pow(Dot(c.w[rows[s].i], c.w[rows[s].j]), z)]
    ELSE <<>>

\* sdf's kernel: for index in prange(npairs), one row per entry of the
\* doubled pair array.
SdfRows(prs, r, box, c) ==
    [s \in 1..Len(prs) |-> Sample("sdf", prs[s], r, box, c)]

\* particle_cloud._get_distribution keeps an axis when its sample array has
\* more than one entry: the axis is binned and there is more than one row.
SdfAxes(rows, c) ==
    IF Len(rows) > 1 THEN Binned(c.nr, c.nphi, c.ntheta) ELSE <<>>

\* An axis's edges with the last one kept: r_n, not r_n[:-1].
AllEdges(axis, c) ==
    [k \in 1..(AxisCount(axis, c) + 1) |->
        CASE axis = "r" -> REdge(k - 1, c.rmin, c.rmaxH, c.nr)
          [] axis = "phi" -> PhiEdge(k - 1, c.nphi)
          [] axis = "theta" -> ThetaEdge(k - 1, c.ntheta)]

\* r_n[:-1], phi_m[:-1], theta_l[:-1]: the edges of an axis without the last
\* (r in units of 1/(2 nr), the angles in quarter turns).
LeftEdges(axis, c) ==
    [k \in 1..AxisCount(axis, c) |->
        CASE axis = "r" -> REdge(k - 1, c.rmin, c.rmaxH, c.nr)
          [] axis = "phi" -> PhiEdge(k - 1, c.nphi)
          [] axis = "theta" -> ThetaEdge(k - 1, c.ntheta)]

\* np.squeeze(vol): the shape (nr, nphi, ntheta) without its axes of length 1.
VolShape(c) == SelectSeq(<<c.nr, c.nphi, c.ntheta>>, LAMBDA n : n # 1)

\* The shape of the histogram: one length per axis that was binned.
CountShape(axes, c) == [a \in 1..Len(axes) |-> AxisCount(axes[a], c)]

\* g = count/(N*vol*density): the shape count and vol broadcast to, <<-1>>
\* when they do not broadcast.
GShape(axes, c) ==
    LET cs == CountShape(axes, c)
        vs == VolShape(c)
        n  == Max(Len(cs), Len(vs))
        At(sh, k) == IF k <= n - Len(sh) THEN 1 ELSE sh[k - (n - Len(sh))]
    IN  IF \A k \in 1..n : At(cs, k) = At(vs, k) \/ At(cs, k) = 1 \/ At(vs, k) = 1
        THEN [k \in 1..n |-> IF At(cs, k) = 1 THEN At(vs, k) ELSE At(cs, k)]
        ELSE <<-1>>

\* The item of the returned tuple of a given name: the grid g by its shape,
\* an edge array by its entries.
Item(name, axes, c) == IF name = "g" THEN GShape(axes, c) ELSE LeftEdges(name, c)

\* out = [g, r_n[:-1], phi_m[:-1]], and theta_l[:-1] in 3D.
Result(ndim) == IF ndim = 3 THEN <<"g", "r", "phi", "theta">> ELSE <<"g", "r", "phi">>

-----------------------------------------------------------------------------
(* fourier_corr and structure_factor *)

\* np.arange(dq, 200*dq, dq): the stop, in units of dq.
DefaultQStop == 200

\* np.pi and 2*np.pi are the double with the significand 0x1921FB54442D18.
PiBits == Low(4467992, 24) \o Low(2227028, 24) \o Bits(25)

\* A wavenumber: n times the unit, the unit being 1 for a caller's q and
\* dq = 2 pi / max(boxsize) for the default grid.
\* dq = 2*np.pi/side in doubles, as its significand (a power of 2 apart),
\* for a side below 2^19.
DqBits(side) ==
    LET d == BitsDiv(Shl(PiBits, 20), side)
    IN  FlRound(d.q, d.rem # 0)

\* len(np.arange(dq, 200*dq, dq)): np.arange has ceil((stop - start)/step)
\* entries, computed in doubles. (200*dq - dq)/dq is 199, or for some sides
\* (17, 19, 25, ...) 199.00000000000003, and the grid then has 200 entries
\* with 200 dq as the last. The quotient rounds above n = 199 when it is more
\* than n + 2^-46, half the spacing of the doubles at n.
ArangeLen(box) ==
    LET dq   == DqBits(SeqMax(box))
        stop == FlRound(BitsMul(dq, DefaultQStop), FALSE)
        span == FlRound(BitsSub(stop, dq), FALSE)
        n    == DefaultQStop - 1
        half == Significand - Log2(n)
    IN  IF BitsLess(BitsAdd(Shl(BitsMul(dq, n), half), dq), Shl(span, half))
        THEN n + 1 ELSE n

DefaultQ(box) == [k \in 1..ArangeLen(box) |-> [n |-> k, unit |-> "dq", box |-> SeqMax(box)]]
\* CallerQ with the caller's wavenumbers in the reverse order.
CallerQReversed(q) == [k \in 1..Len(q) |-> [n |-> q[Len(q) + 1 - k], unit |-> "1", box |-> 0]]

CallerQ(q) == [k \in 1..Len(q) |-> [n |-> q[k], unit |-> "1", box |-> 0]]

\* bool(spatial): spatial is the module scipy.spatial, imported at the top of
\* particle_correlations.py, and a module is true.
SpatialIsTrue == TRUE

\* fourier_corr.S: g = gr-1 if spatial else gr
FourierG(gr) == IF SpatialIsTrue THEN [k \in 1..Len(gr) |-> gr[k] - 1] ELSE gr

\* structure_factor.S integrates gr - 1.
StructureG(gr) == [k \in 1..Len(gr) |-> gr[k] - 1]

\* The integrand f at the points of r, kept as its factors:
\* sin(q r) r g in 3D, J0(q r) r g in 2D.
Integrand(ndim, q, r, g) ==
    [k \in 1..Len(r) |->
        [kernel |-> IF ndim = 3 THEN "sin" ELSE "jv0", q |-> q, r |-> r[k], g |-> g[k]]]

\* S(q): 1 + 4 pi rho simps(f, r) / q in 3D, 1 + 2 pi rho simps(f, r) in 2D,
\* with rho = N / prod(boxsize); kept as its parts.
S(o, q, gr, r, N, box) ==
    [ndim |-> Len(box), N |-> N, box |-> box, q |-> q,
     f |-> Integrand(Len(box), q, r, IF o = "fourier_corr" THEN FourierG(gr) ELSE StructureG(gr))]

-----------------------------------------------------------------------------
(* The calls the model makes *)

Sides == {MinSide, MaxSide}

\* The coordinate axes and their opposites, scaled by k.
AxisVecs(ndim, k) ==
    {[a \in 1..ndim |-> IF a = b THEN sg * k ELSE 0] : b \in 1..ndim, sg \in {-1, 1}}

\* The reference axis: (0,1) in 2D, (0,0,1) in 3D.
RefAxis(ndim) == [a \in 1..ndim |-> IF a = ndim THEN 1 ELSE 0]

Origin(ndim) == Zeros(ndim)

\* The points of a cubic box of side s.
BoxPoints(ndim, s) == [1..ndim -> 0..(s - 1)]

\* The defaults of corr's and sdf's signatures.
DefaultArgs == [z |-> 1, rmin |-> None, rmax |-> None,
                nr |-> Some(100), nphi |-> None, ntheta |-> None]

\* The defaults with two bins of r.
CallArgs == [DefaultArgs EXCEPT !.nr = Some(2)]

\* The smallest side with the long default grid of wavenumbers.
LongSide == CHOOSE x \in MinSide..(4 * MaxSide) :
                /\ ArangeLen(<<x>>) = DefaultQStop
                /\ \A y \in MinSide..(x - 1) : ArangeLen(<<y>>) # DefaultQStop

NoFc == [gr |-> <<>>, r |-> <<>>, N |-> 0, q |-> None, qgrid |-> <<>>, Sq |-> <<>>]

\* A call of corr or sdf with the given arguments.
Call(o, pos, box, ori, w, a) ==
    /\ op = o
    /\ pc = "args"
    /\ positions = pos
    /\ positions0 = pos
    /\ boxsize = box
    /\ orientations = ori
    /\ weights = w
    /\ args = a
    /\ loc = NoLocals
    /\ pairs = <<>>
    /\ rbuff = <<>>
    /\ wbuff = <<>>
    /\ count = <<>>
    /\ out = <<>>
    /\ err = ""
    /\ ran = {}
    /\ fc = NoFc
    /\ iter = <<>>
    /\ writes = <<>>

\* One particle anywhere, also outside the box, and one inside, in 2D; the
\* box may have unequal sides and rmax may exceed half a side.
InitGeometry ==
    \E o \in {"corr", "sdf"}, s \in Sides,
       p1 \in [1..2 -> -1..MaxSide], p2 \in BoxPoints(2, MinSide),
       rm \in {None, Some(1), Some(MinSide)}, n \in 1..2 :
        Call(o, IF n = 1 THEN <<p1>> ELSE <<p1, p2>>, <<s, MinSide>>, None, None,
             [CallArgs EXCEPT !.rmax = rm])

\* One particle up to MaxWrap box lengths outside the box.
InitWrap ==
    \E o \in {"corr", "sdf"},
       p1 \in [1..2 -> (-MaxWrap * MinSide - 1)..((MaxWrap + 1) * MinSide + 1)] :
        Call(o, <<p1, Origin(2)>>, <<MinSide, MinSide>>, None, None, CallArgs)

\* MaxN particles in the first three cells of the x axis of a box with a long
\* x side, numbered in the order of their x, rmax = 1: from no pair to all
\* MaxN(MaxN-1)/2 pairs.
InitChain ==
    \E o \in {"corr", "sdf"}, xs \in [1..MaxN -> 0..2] :
        /\ \A k \in 1..(MaxN - 1) : xs[k] <= xs[k + 1]
        /\ Call(o, [k \in 1..MaxN |-> <<xs[k], 0>>], <<MaxSide, MinSide>>, None, None,
                [CallArgs EXCEPT !.rmax = Some(1)])

\* Every bin configuration, for one particle at the origin and one anywhere
\* in a cubic box (also at the origin), in 2D and 3D; nr may be None or 0,
\* for sdf as for corr.
InitBins ==
    \E o \in {"corr", "sdf"}, ndim \in {2, 3},
       rmn \in {None, Some(1)}, rmx \in {None, Some(2)},
       a \in {None, Some(0), Some(1), Some(2), Some(3)},
       b \in {None, Some(2), Some(4)}, c \in {None, Some(2)} :
      \E p2 \in BoxPoints(ndim, MinSide) :
        /\ Binned(BinArg(a), BinArg(b), IF ndim = 2 THEN 1 ELSE BinArg(c)) # <<>>
        /\ Call(o, <<Origin(ndim), p2>>, [k \in 1..ndim |-> MinSide], None, None,
                [z |-> 1, rmin |-> rmn, rmax |-> rmx, nr |-> a, nphi |-> b, ntheta |-> c])

\* Orientations along the axes, of length 1 or 2 for the first particle.
InitOrient ==
    \E o \in {"corr", "sdf"}, ndim \in {2, 3}, b \in {None, Some(4)}, c \in {None, Some(2)} :
      \E p2 \in BoxPoints(ndim, MinSide),
         o1 \in AxisVecs(ndim, 1) \cup AxisVecs(ndim, 2),
         o2 \in {RefAxis(ndim), [a \in 1..ndim |-> IF a = 1 THEN 1 ELSE 0]} :
        Call(o, <<Origin(ndim), p2>>, [k \in 1..ndim |-> MinSide], Some(<<o1, o2>>), None,
             [CallArgs EXCEPT !.nphi = b, !.ntheta = c])

\* The sides of the smallest right triangle of integer sides that a rotation
\* by pi turns, in doubles, into a displacement of another norm.
Triangle == <<5, 12, 13>>

\* Two particles a distance rmax = 13 apart along such a triangle, in a box of
\* side 26, the first with any orientation along an axis.
InitNorm ==
    \E o \in {"corr", "sdf"}, o1 \in AxisVecs(2, 1),
       p2 \in {<<Triangle[1], Triangle[2]>>, <<Triangle[2], Triangle[1]>>,
               <<2 * Triangle[3] - Triangle[2], Triangle[1]>>,
               <<Triangle[2], 2 * Triangle[3] - Triangle[1]>>} :
        Call(o, <<Origin(2), p2>>, <<2 * Triangle[3], 2 * Triangle[3]>>,
             Some(<<o1, RefAxis(2)>>), None, CallArgs)

\* Three particles, two of them at one place, with rmin = 1: samples with
\* r = 0 below the first bin and samples with r = 1 on its left edge.
InitRmin ==
    \E o \in {"corr", "sdf"}, x \in 0..1 :
        Call(o, <<Origin(2), Origin(2), <<x, 1 - x>>>>, <<MinSide, MinSide>>, None, None,
             [CallArgs EXCEPT !.rmin = Some(1)])

\* The smallest box and bin count (up to 100) for which an edge of
\* np.linspace(0, rmax, nr+1) with the default rmax lies above the whole
\* number it stands for: side 21 and nr = 75, where r_n[50] = 7.000000000000001.
GridAbove == [side |-> 21, nr |-> 75, r |-> 7]

\* Two particles the distance r of GridAbove apart along an axis, in a box
\* of its side, with its bin count.
InitGrid ==
    \E o \in {"corr", "sdf"}, x \in {0, GridAbove.r} :
        Call(o, <<Origin(2), <<x, GridAbove.r - x>>>>, <<GridAbove.side, GridAbove.side>>,
             None, None, [DefaultArgs EXCEPT !.nr = Some(GridAbove.nr)])

\* Weights with components in -1..1, for one or two particles, exponent 1 or 2.
InitWeights ==
    \E n \in 1..2, w \in [1..2 -> [1..2 -> -1..1]], z \in 1..2, x \in 0..1 :
        Call("corr", SubSeq(<<<<0, 0>>, <<x, 1>>>>, 1, n), <<MinSide, MinSide>>, None,
             Some(SubSeq(w, 1, n)), [CallArgs EXCEPT !.z = z])

\* Arguments of every dimension 1..4, with orientations and weights of the
\* right and of the wrong shapes; the positions lie outside the box.
InitConfig ==
    \E o \in {"corr", "sdf"}, ndim \in 1..4, n \in 1..2, x \in {-1, 1, MinSide + 1},
       orows \in 0..3, ocols \in 1..4, wrows \in 0..3, wcols \in 1..4 :
        /\ orows \in {0, n, n + 1} /\ ocols \in {ndim, ndim + 1} /\ (orows = 0 => ocols = ndim)
        /\ wrows \in {0, n, n + 1} /\ wcols \in {ndim, ndim + 1} /\ (wrows = 0 => wcols = ndim)
        /\ o = "sdf" => wrows = 0
        /\ Call(o, [j \in 1..n |-> [i \in 1..ndim |-> x]], [k \in 1..ndim |-> MinSide],
                IF orows = 0 THEN None ELSE Some([j \in 1..orows |-> RefAxis(ocols)]),
                IF wrows = 0 THEN None ELSE Some([j \in 1..wrows |-> RefAxis(wcols)]),
                DefaultArgs)

\* A call of fourier_corr or structure_factor.
FourierCall(o, gr, r, N, box, q) ==
    /\ op = o
    /\ pc = "fargs"
    /\ positions = <<>>
    /\ positions0 = <<>>
    /\ boxsize = box
    /\ orientations = None
    /\ weights = None
    /\ args = DefaultArgs
    /\ loc = NoLocals
    /\ pairs = <<>>
    /\ rbuff = <<>>
    /\ wbuff = <<>>
    /\ count = <<>>
    /\ out = <<>>
    /\ err = ""
    /\ ran = {}
    /\ fc = [NoFc EXCEPT !.gr = gr, !.r = r, !.N = N, !.q = q]
    /\ iter = <<>>
    /\ writes = <<>>

\* g(r) with values 0..2 on the grid r = 0, 1, 2, for boxes of 1..4 sides,
\* short or long, with the default wavenumbers or the caller's.
InitFourier ==
    \E o \in {"fourier_corr", "structure_factor"}, gr \in [1..3 -> 0..2], ndim \in 1..4,
       q \in {None, Some(<<1, 2>>), Some(<<2, 1, 3>>)}, side \in {MinSide, LongSide} :
        FourierCall(o, gr, <<0, 1, 2>>, 2, [k \in 1..ndim |-> side], q)

-----------------------------------------------------------------------------
(* corr and sdf, stage by stage *)

Raise(e) ==
    /\ pc' = "raised"
    /\ err' = e

\* corr, lines 200-228: the argument checks and the binning arguments.
CorrArgs ==
    /\ op = "corr" /\ pc = "args"
    /\ ran' = ran \cup {"args"}
    /\ LET e == ConfigError("corr", positions, orientations, weights)
       IN  IF e # ""
           THEN Raise(e) /\ UNCHANGED loc
           ELSE /\ loc' = CorrLocals(positions, boxsize, orientations, weights, args)
                /\ pc' = "pbc"
                /\ UNCHANGED err
    /\ UNCHANGED <<iter, writes, op, positions, positions0, boxsize, orientations, weights, args,
                   pairs, rbuff, wbuff, count, out, fc>>

\* sdf, lines 166-183.
SdfArgs ==
    /\ op = "sdf" /\ pc = "args"
    /\ ran' = ran \cup {"args"}
    /\ LET e == ConfigError("sdf", positions, orientations, weights)
       IN  IF e # ""
           THEN Raise(e) /\ UNCHANGED loc
           ELSE /\ loc' = SdfLocals(positions, boxsize, orientations, args)
                /\ pc' = "pbc"
                /\ UNCHANGED err
    /\ UNCHANGED <<iter, writes, op, positions, positions0, boxsize, orientations, weights, args,
                   pairs, rbuff, wbuff, count, out, fc>>

\* _impose_pbc(positions, boxsize): writes the caller's array.
Pbc ==
    /\ op \in {"corr", "sdf"} /\ pc = "pbc"
    /\ ran' = ran \cup {"pbc"}
    /\ positions' = ImposePbc(positions, boxsize)
    /\ pc' = "pairs"
    /\ UNCHANGED <<iter, writes, op, positions0, boxsize, orientations, weights, args, loc,
                   pairs, rbuff, wbuff, count, out, err, fc>>

\* The tree refuses the wrapped positions.
PairsRejected ==
    /\ op \in {"corr", "sdf"} /\ pc = "pairs"
    /\ TreeRejects(positions, boxsize)
    /\ ran' = ran \cup {"pairs"}
    /\ Raise("Some input data are greater than the size of the periodic box")
    /\ UNCHANGED <<iter, writes, op, positions, positions0, boxsize, orientations, weights, args, loc,
                   pairs, rbuff, wbuff, count, out, fc>>

\* corr, lines 237-241: the pairs in any order; no pair is an error.
CorrPairs ==
    /\ op = "corr" /\ pc = "pairs"
    /\ ~TreeRejects(positions, boxsize)
    /\ ran' = ran \cup {"pairs"}
    /\ \E prs \in Orderings(QueryPairs(positions, boxsize, loc.rmaxH)) :
        /\ pairs' = prs
        /\ IF Len(prs) = 0
           THEN Raise("Counted 0 pairs. Try increasing rmax")
           ELSE pc' = "kernel" /\ UNCHANGED err
    /\ UNCHANGED <<iter, writes, op, positions, positions0, boxsize, orientations, weights, args, loc,
                   rbuff, wbuff, count, out, fc>>

\* sdf, line 192: the pairs in any order, doubled.
SdfPairs ==
    /\ op = "sdf" /\ pc = "pairs"
    /\ ~TreeRejects(positions, boxsize)
    /\ ran' = ran \cup {"pairs"}
    /\ \E prs \in Orderings(QueryPairs(positions, boxsize, loc.rmaxH)) :
        pairs' = Doubled(prs)
    /\ pc' = "kernel"
    /\ UNCHANGED <<iter, writes, op, positions, positions0, boxsize, orientations, weights, args, loc,
                   rbuff, wbuff, count, out, err, fc>>

KernelRows ==
    IF op = "corr" THEN CorrRows(pairs, positions, boxsize, loc)
    ELSE SdfRows(pairs, positions, boxsize, loc)

\* sdf passes nr to its compiled kernel as given: for nr = None the kernel's
\* test nr > 1 has no compiled form.
Untyped == op = "sdf" /\ IsNone(args.nr)

\* _get_displacements fills the buffers; a division by a zero norm gives NaN.
Kernel ==
    /\ op \in {"corr", "sdf"} /\ pc = "kernel"
    /\ ~Untyped
    /\ ran' = ran \cup {"kernel"}
    /\ rbuff' = KernelRows
    /\ wbuff' = IF op = "corr" THEN CorrWeights(KernelRows, loc, args.z) ELSE <<>>
    /\ pc' = "histogram"
    /\ UNCHANGED <<iter, writes, op, positions, positions0, boxsize, orientations, weights, args, loc,
                   pairs, count, out, err, fc>>

\* _get_displacements, compiled with the error model that raises on a
\* division by zero: r_ij[2] / norm with norm = 0 ends the call.
KernelRaises ==
    /\ op \in {"corr", "sdf"} /\ pc = "kernel"
    /\ ~Untyped
    /\ \E s \in 1..Len(KernelRows) : ZeroDivision(KernelRows[s], loc)
    /\ ran' = ran \cup {"kernel"}
    /\ Raise("division by zero")
    /\ UNCHANGED <<iter, writes, op, positions, positions0, boxsize, orientations, weights, args, loc,
                   pairs, rbuff, wbuff, count, out, fc>>

\* particle_cloud._get_displacements(..., nr=None, ...): the compilation of
\* the kernel for these argument types fails and ends the call before the
\* kernel runs.
KernelUntyped ==
    /\ pc = "kernel"
    /\ Untyped
    /\ Raise("No implementation of function gt(none, int64)")
    /\ UNCHANGED <<iter, writes, op, positions, positions0, boxsize, orientations, weights, args, loc,
                   pairs, rbuff, wbuff, count, out, ran, fc>>

\* The axes _get_distribution bins.
HistAxes ==
    IF op = "corr" THEN Binned(loc.nr, loc.nphi, loc.ntheta) ELSE SdfAxes(rbuff, loc)

\* _get_distribution: np.histogramdd over the binned axes.
Distribution ==
    /\ op \in {"corr", "sdf"} /\ pc = "histogram"
    /\ HistAxes # <<>>
    /\ ran' = ran \cup {"histogram"}
    /\ count' = Histogram(rbuff, wbuff, HistAxes, loc)
    /\ pc' = "return"
    /\ UNCHANGED <<iter, writes, op, positions, positions0, boxsize, orientations, weights, args, loc,
                   pairs, rbuff, wbuff, out, err, fc>>

\* particle_cloud._get_distribution with no sample array of more than one
\* entry: np.histogramdd([], bins=[]) raises.
DistributionRaises ==
    /\ op \in {"corr", "sdf"} /\ pc = "histogram"
    /\ HistAxes = <<>>
    /\ ran' = ran \cup {"histogram"}
    /\ Raise("The dimension of bins must be equal to the dimension of the sample x.")
    /\ UNCHANGED <<iter, writes, op, positions, positions0, boxsize, orientations, weights, args, loc,
                   pairs, rbuff, wbuff, count, out, fc>>

\* return tuple(out)
Return ==
    /\ op \in {"corr", "sdf"} /\ pc = "return"
    /\ out' = Result(Shape(positions)[2])
    /\ pc' = "done"
    /\ UNCHANGED <<iter, writes, op, positions, positions0, boxsize, orientations, weights, args, loc,
                   pairs, rbuff, wbuff, count, err, ran, fc>>

-----------------------------------------------------------------------------
(* fourier_corr and structure_factor, stage by stage *)

\* Lines 77-85 (70-78 in particle_cloud.py): the dimension check and the
\* wavenumber grid.
FourierArgs ==
    /\ op \in {"fourier_corr", "structure_factor"} /\ pc = "fargs"
    /\ ran' = ran \cup {"fargs"}
    /\ IF Len(boxsize) \notin {2, 3}
       THEN Raise("Dimension of space must be 2 or 3") /\ UNCHANGED fc
       ELSE /\ fc' = [fc EXCEPT !.qgrid = IF IsNone(fc.q) THEN DefaultQ(boxsize)
                                          ELSE CallerQ(Val(fc.q))]
            /\ pc' = "integrate"
            /\ UNCHANGED err
    /\ UNCHANGED <<iter, writes, op, positions, positions0, boxsize, orientations, weights, args, loc,
                   pairs, rbuff, wbuff, count, out>>

\* Lines 98-104: S for every q, in the order of the grid; return Sq, q.
FourierIntegrate ==
    /\ op \in {"fourier_corr", "structure_factor"} /\ pc = "integrate"
    /\ ran' = ran \cup {"integrate"}
    /\ fc' = [fc EXCEPT !.Sq = [j \in 1..Len(fc.qgrid) |->
                                  S(op, fc.qgrid[j], fc.gr, fc.r, fc.N, boxsize)]]
    /\ out' = <<"Sq", "q">>
    /\ pc' = "done"
    /\ UNCHANGED <<iter, writes, op, positions, positions0, boxsize, orientations, weights, args, loc,
                   pairs, rbuff, wbuff, count, err>>

Init == InitGeometry \/ InitWrap \/ InitChain \/ InitBins \/ InitOrient
        \/ InitNorm \/ InitRmin \/ InitGrid \/ InitWeights \/ InitConfig \/ InitFourier

Next == CorrArgs \/ SdfArgs \/ Pbc \/ PairsRejected \/ CorrPairs \/ SdfPairs
        \/ Kernel \/ KernelRaises \/ KernelUntyped \/ Distribution \/ DistributionRaises \/ Return
        \/ FourierArgs \/ FourierIntegrate

Spec == Init /\ [][Next]_vars

-----------------------------------------------------------------------------
(* corr's displacement kernel, iteration by iteration *)

\* The weights of the kernel's calls: a vector per particle.
KernelWeights(n) == [k \in 1..n |-> <<k, 1>>]

\* corr at its call of _get_displacements (lines 247-251), for a chain of n
\* particles one apart along x in a box with a long x side: rmax = 1 pairs
\* the neighbours, rmax = 2 the next neighbours too. The buffers are
\* allocated, np.zeros, and no iteration has started.
KernelInit ==
    \E n \in 2..MaxN, rm \in 1..2, y \in 0..1, z \in 1..2, weighted \in BOOLEAN :
      LET pos == [k \in 1..n |-> <<k - 1, y>>]
          box == <<MaxSide, MinSide>>
          w   == IF weighted THEN Some(KernelWeights(n)) ELSE None
          a   == [CallArgs EXCEPT !.rmax = Some(rm), !.z = z]
          c   == CorrLocals(pos, box, None, w, a)
      IN  \E prs \in Orderings(QueryPairs(ImposePbc(pos, box), box, c.rmaxH)) :
            /\ op = "corr"
            /\ pc = "kernel"
            /\ positions = ImposePbc(pos, box)
            /\ positions0 = pos
            /\ boxsize = box
            /\ orientations = None
            /\ weights = w
            /\ args = a
            /\ loc = c
            /\ pairs = prs
            /\ rbuff = [s \in 1..(2 * Len(prs)) |-> ZeroRow]
            /\ wbuff = IF Len(c.w) > 1 THEN [s \in 1..(2 * Len(prs)) |-> 0] ELSE <<>>
            /\ count = <<>>
            /\ out = <<>>
            /\ err = ""
            /\ ran = {"args", "pbc", "pairs"}
            /\ fc = NoFc
            /\ iter = [idx1 \in 1..Len(prs) |-> 0]
            /\ writes = [s \in 1..(2 * Len(prs)) |-> <<>>]

\* One pass of the inner loop of iteration idx1 of the prange (lines 312-340):
\* the loop body for the iteration's next idx2 fills slot index of both buffers.
KernelStep ==
    /\ op = "corr" /\ pc = "kernel"
    /\ \E idx1 \in DOMAIN iter :
        /\ iter[idx1] < 2
        /\ LET idx2  == iter[idx1]
               index == Slot(idx1, idx2, Len(pairs))
               ij    == Ordered(pairs[idx1], idx2)
           IN  /\ rbuff' = [rbuff EXCEPT ![index] = Sample("corr", ij, positions, boxsize, loc)]
               /\ wbuff' = IF Len(wbuff) > 1
                           THEN [wbuff EXCEPT ![index] = Pow(Dot(loc.w[ij[1]], loc.w[ij[2]]), args.z)]
                           ELSE wbuff
               /\ writes' = [writes EXCEPT ![index] = Append(@, <<idx1, idx2>>)]
               /\ iter' = [iter EXCEPT ![idx1] = idx2 + 1]
    /\ UNCHANGED <<op, pc, positions, positions0, boxsize, orientations, weights, args, loc,
                   pairs, count, out, err, ran, fc>>

\* The prange is over: every iteration has run both passes, and
\* _get_displacements returns the buffers.
KernelJoin ==
    /\ op = "corr" /\ pc = "kernel"
    /\ iter # <<>>
    /\ \A idx1 \in DOMAIN iter : iter[idx1] = 2
    /\ pc' = "histogram"
    /\ ran' = ran \cup {"kernel"}
    /\ UNCHANGED <<op, positions, positions0, boxsize, orientations, weights, args, loc,
                   pairs, rbuff, wbuff, count, out, err, fc, iter, writes>>

KernelNext == KernelStep \/ KernelJoin

\* The kernel under every interleaving of its iterations.
KernelSpec == KernelInit /\ [][KernelNext]_vars

-----------------------------------------------------------------------------
(* The claims *)

CallReturned == pc = "done" /\ op \in {"corr", "sdf"}

KernelDone == op \in {"corr", "sdf"} /\ "kernel" \in ran /\ err # "division by zero"

\* The unordered pairs the search found among the wrapped positions.
Found == QueryPairs(positions, boxsize, loc.rmaxH)

\* C1: after _impose_pbc has run, every coordinate component c on axis a
\* satisfies 0 <= c < boxsize[a].
C1_WrappedIntoBox ==
    (op \in {"corr", "sdf"} /\ "pbc" \in ran) =>
        \A j \in 1..Len(positions) : \A a \in 1..Len(boxsize) :
            0 <= positions[j][a] /\ positions[j][a] < boxsize[a]

\* C2: when the pair search finds zero pairs, the call fails with the
\* empty-result error before the displacement kernel and the histogram run,
\* and never returns.
C2_EmptyResultReported ==
    (op \in {"corr", "sdf"} /\ "pairs" \in ran /\ pairs = <<>>
        /\ err # "Some input data are greater than the size of the periodic box") =>
        /\ "kernel" \notin ran
        /\ "histogram" \notin ran
        /\ pc # "done"
        /\ pc = "raised" => err = "Counted 0 pairs. Try increasing rmax"

\* The arguments hold a configuration error: the space dimension is not 2
\* or 3, or a supplied orientations or weights array is not of shape (N, ndim).
BadConfiguration ==
    LET N == Len(positions0)
        ndim == Len(positions0[1])
        BadShape(x) == ~IsNone(x) /\ (Len(Val(x)) # N \/ Len(Val(x)[1]) # ndim)
    IN  ndim \notin {2, 3} \/ BadShape(orientations) \/ BadShape(weights)

\* C3: a configuration error is raised before the PBC wrap, the pair search
\* and the kernel start: the call ends in the error, with only the argument
\* stage run and the caller's positions as they were.
C3_ConfigErrorBeforeWork ==
    (op \in {"corr", "sdf"} /\ BadConfiguration) =>
        /\ positions = positions0
        /\ ran \subseteq {"args"}
        /\ pc \in {"args", "raised"}
        /\ pc = "raised" => err \in {"Dimension of space must be 2 or 3",
                                    "Shape of orientations must match positions array",
                                    "Shape of weights must match positions array"}

\* C3's case: a shape error was raised for positions the wrap would have changed.
C3_Witness ==
    /\ op = "corr" /\ pc = "raised"
    /\ err = "Shape of weights must match positions array"
    /\ ImposePbc(positions0, boxsize) # positions0
    /\ positions = positions0

\* C4: the kernel produces exactly two samples per unordered pair found, one
\* for (i,j) and one for (j,i), each exactly once, with i # j: the number of
\* samples is twice the number of pairs.
C4_TwoSamplesPerPair ==
    KernelDone =>
        /\ Len(rbuff) = 2 * Cardinality(Found)
        /\ \A s \in 1..Len(rbuff) :
            /\ rbuff[s].i # rbuff[s].j
            /\ <<rbuff[s].i, rbuff[s].j>> \in Found \/ <<rbuff[s].j, rbuff[s].i>> \in Found
        /\ \A pr \in Found :
            /\ Cardinality({s \in 1..Len(rbuff) : rbuff[s].i = pr[1] /\ rbuff[s].j = pr[2]}) = 1
            /\ Cardinality({s \in 1..Len(rbuff) : rbuff[s].i = pr[2] /\ rbuff[s].j = pr[1]}) = 1

\* C4's case: corr's kernel has run over three unordered pairs.
C4_Witness == KernelDone /\ op = "corr" /\ Cardinality(Found) = 3 /\ Len(rbuff) = 6

\* C5: for every ordered pair found within rmax, the displacement used for
\* binning is the per-axis minimum image: |d_a| <= boxsize[a]/2 and
\* d_a = r_j[a] - r_i[a] modulo boxsize[a], on every axis a.
C5_MinimumImage ==
    KernelDone =>
        \A s \in 1..Len(rbuff) : \A a \in 1..Len(boxsize) :
            /\ 2 * Abs(rbuff[s].d[a]) <= boxsize[a]
            /\ (rbuff[s].d[a] - (positions[rbuff[s].j][a] - positions[rbuff[s].i][a]))
                  % boxsize[a] = 0

\* C6: when particle i's orientation is exactly the reference axis, the
\* rotation is the identity: the rotated displacement is the unrotated one
\* (and so is a number, not the NaN of a division by a zero-length axis).
C6_ReferenceAxisIsIdentity ==
    (KernelDone /\ ~IsNone(orientations)) =>
        \A s \in 1..Len(rbuff) :
            Val(orientations)[rbuff[s].i] = RefAxis(Len(boxsize)) =>
                ~rbuff[s].rij.nan /\ rbuff[s].rij.v = rbuff[s].d

Unweighted == wbuff = <<>>

\* The bin count of an axis, from the caller's arguments: None is one bin,
\* theta has one bin in 2D, and corr takes a count below 1 as one bin, where
\* sdf takes the count as given.
BinCount(axis) ==
    LET n == CASE axis = "r" -> args.nr [] axis = "phi" -> args.nphi [] axis = "theta" -> args.ntheta
    IN  IF IsNone(n) \/ (axis = "theta" /\ Len(boxsize) = 2) THEN 1
        ELSE IF op = "corr" /\ Val(n) < 1 THEN 1 ELSE Val(n)

\* The axes with more than one bin, in the order r, phi, theta.
BinnedAxes == SelectSeq(<<"r", "phi", "theta">>, LAMBDA x : BinCount(x) > 1)

\* The sum of a function's values over a set of its arguments.
RECURSIVE SumOver(_, _)
SumOver(f, D) == IF D = {} THEN 0
                 ELSE LET x == CHOOSE x \in D : TRUE IN f[x] + SumOver(f, D \ {x})

\* C7, as claimed: without weights the sum of the counts over all cells is
\* the number of samples the kernel produced, whatever the bins: no sample is
\* dropped by the histogram.
C7_EverySampleCounted ==
    (CallReturned /\ Unweighted) => SumOver(count, DOMAIN count) = Len(rbuff)

\* rmin <= r <= rmax for the norm r as the kernel stored it, rmin and rmax
\* being the caller's, or 0 and half the longest side of the box: the stored
\* norm is the double next to the square root of the exact square NormSq,
\* NormUlps above it.
RInRange(rij) ==
    LET nsq   == NormSq(rij.v)
        rmin  == IF IsNone(args.rmin) THEN 0 ELSE Val(args.rmin)
        rmaxH == IF IsNone(args.rmax) THEN SeqMax(boxsize) ELSE 2 * Val(args.rmax)
    IN  /\ \/ rmin * rmin < nsq
           \/ rmin * rmin = nsq /\ NormUlps(rij) >= 0
        /\ \/ 4 * nsq < rmaxH * rmaxH
           \/ 4 * nsq = rmaxH * rmaxH /\ NormUlps(rij) <= 0

\* The sample lies in the range of the bins on every axis that is binned:
\* its coordinates are numbers and rmin <= r <= rmax. (Every phi and every
\* theta that is a number lies in the range of its bins.)
InBinRange(row) ==
    /\ ~row.rij.nan
    /\ BinCount("r") > 1 => RInRange(row.rij)
    /\ BinCount("theta") > 1 => ~row.thetaNaN

\* C7, amended: without weights the sum of the counts over all cells is the
\* number of samples that lie in the range of the bins on every binned axis
\* (rmin <= r <= rmax, theta a number); the other samples are dropped.
C7_SamplesInRangeCounted ==
    (CallReturned /\ Unweighted) =>
        SumOver(count, DOMAIN count) =
            Cardinality({s \in 1..Len(rbuff) : InBinRange(rbuff[s])})

\* C7's case: a call with rmin > 0 returned a histogram that counts samples
\* with r >= rmin and leaves out samples with r < rmin.
C7_Witness ==
    /\ CallReturned /\ Unweighted /\ args.rmin = Some(1) /\ BinCount("r") > 1
    /\ SumOver(count, DOMAIN count) > 0
    /\ \E s \in 1..Len(rbuff) : InBinRange(rbuff[s])
    /\ \E s \in 1..Len(rbuff) : ~rbuff[s].rij.nan /\ NormSq(rbuff[s].rij.v) = 0

\* C8: a pair whose displacement norm is exactly zero is handled by a branch:
\* when theta is binned the kernel never evaluates z / norm with norm = 0, so
\* the call neither ends in a division by zero nor stores a NaN theta.
C8_ZeroNormHandled ==
    /\ (op \in {"corr", "sdf"} /\ pc = "raised") => err # "division by zero"
    /\ (op \in {"corr", "sdf"} /\ "kernel" \in ran) =>
          \A s \in 1..Len(rbuff) :
              (~rbuff[s].rij.nan /\ NormSq(rbuff[s].rij.v) = 0) => ~rbuff[s].thetaNaN

\* C9: fourier_corr integrates the caller's gr unmodified: for every q the
\* integrand at r[k] is kernel(q r[k]) * r[k] * gr[k].
C9_IntegratesGrAsGiven ==
    (op = "fourier_corr" /\ pc = "done") =>
        \A j \in 1..Len(fc.Sq) : \A k \in 1..Len(fc.r) :
            /\ fc.Sq[j].f[k].g = fc.gr[k]
            /\ fc.Sq[j].f[k].r = fc.r[k]
            /\ fc.Sq[j].f[k].q = fc.qgrid[j]

\* C10: a call of corr or sdf that returns normally leaves the caller's
\* positions with the contents they had before the call. (No stage writes
\* orientations, weights or boxsize.)
C10_PositionsUnchanged ==
    CallReturned => positions = positions0

\* C11: the grid returned by corr or sdf has one dimension per axis with
\* more than one bin, in the order r, phi, theta and of that axis's bin count,
\* and none for the other axes (theta never in 2D, whatever ntheta was
\* passed); the result holds g, the r edges and the phi edges, and the theta
\* edges in 3D only, each edge array being the left edges of its axis: as
\* many entries as bins, the last edge left out.
C11_ResultShape ==
    CallReturned =>
        /\ Item(out[1], HistAxes, loc) = [a \in 1..Len(BinnedAxes) |-> BinCount(BinnedAxes[a])]
        /\ DOMAIN count = {cell \in [1..Len(BinnedAxes) ->
                                       0..(Max(Max(BinCount("r"), BinCount("phi")), BinCount("theta")) - 1)] :
                              \A a \in 1..Len(BinnedAxes) : cell[a] < BinCount(BinnedAxes[a])}
        /\ Len(boxsize) = 2 => "theta" \notin Range(BinnedAxes) /\ "theta" \notin Range(HistAxes)
        /\ out = IF Len(boxsize) = 2 THEN <<"g", "r", "phi">> ELSE <<"g", "r", "phi", "theta">>
        /\ \A k \in 2..Len(out) :
              LET e == Item(out[k], HistAxes, loc)
              IN  /\ Len(e) = BinCount(out[k])
                  /\ \A m \in 1..Len(e) : e[m] = AllEdges(out[k], loc)[m]
                  /\ \A m \in 1..Len(e) : e[m] < AllEdges(out[k], loc)[BinCount(out[k]) + 1]

\* C12: fourier_corr and structure_factor raise the dimension error when
\* len(boxsize) is not 2 or 3, with no wavenumber grid built and no S
\* evaluated; when it is 2 or 3 they do not raise, and they return one S per
\* wavenumber of the grid, in the grid's order, and the grid, which is the
\* caller's q, entry by entry, when q was supplied.
C12_DimensionThenAlignedS ==
    op \in {"fourier_corr", "structure_factor"} =>
        /\ Len(boxsize) \notin {2, 3} =>
              /\ pc \in {"fargs", "raised"}
              /\ pc = "raised" => err = "Dimension of space must be 2 or 3"
              /\ fc.qgrid = <<>> /\ fc.Sq = <<>> /\ out = <<>>
              /\ "integrate" \notin ran
        /\ Len(boxsize) \in {2, 3} =>
              /\ pc # "raised"
              /\ pc = "done" =>
                    /\ out = <<"Sq", "q">>
                    /\ Len(fc.Sq) = Len(fc.qgrid)
                    /\ \A j \in 1..Len(fc.qgrid) :
                          fc.Sq[j].q = fc.qgrid[j] /\ fc.Sq[j].ndim = Len(boxsize)
                    /\ ~IsNone(fc.q) =>
                          /\ Len(fc.qgrid) = Len(Val(fc.q))
                          /\ \A j \in 1..Len(fc.qgrid) :
                                fc.qgrid[j].n = Val(fc.q)[j] /\ fc.qgrid[j].unit = "1"
                    /\ IsNone(fc.q) =>
                          \A j \in 1..Len(fc.qgrid) :
                              fc.qgrid[j].n = j /\ fc.qgrid[j].unit = "dq"

\* C12's case: structure_factor returned S over a caller's unsorted q.
C12_Witness ==
    /\ op = "structure_factor" /\ pc = "done" /\ Len(boxsize) = 3
    /\ fc.q = Some(<<2, 1, 3>>)
    /\ Len(fc.Sq) = 3 /\ fc.Sq[1].q.n = 2 /\ fc.Sq[2].q.n = 1

\* C13: when orientations are supplied, the rotation built for particle i
\* maps its normalized orientation p_i onto the reference axis, R p_i = (0,1)
\* in 2D and (0,0,1) in 3D, for every orientation not already along the
\* reference axis. (R p_i is compared by its integer parts: a component of
\* some eps counts as 0.)
C13_OrientationOntoReference ==
    (KernelDone /\ ~IsNone(orientations)) =>
        \A s \in 1..Len(rbuff) :
            LET p_i == UnitVec(Val(orientations)[rbuff[s].i])
            IN  (~p_i.nan /\ p_i.v # RefAxis(Len(boxsize))) =>
                    LET Rp == Rotated(op, p_i.v, p_i.v)
                    IN  ~Rp.nan /\ Rp.v = RefAxis(Len(boxsize))

\* C14: in corr's parallel kernel, under every interleaving of the
\* iterations, no slot of the buffers is written twice, a slot is written
\* only by the iteration (idx1, idx2) with slot = idx1 + npairs*idx2, and when
\* the kernel returns every slot of 2*npairs has been written exactly once:
\* the buffers are those of the sequential loop.
C14_DisjointSlots ==
    (op = "corr" /\ iter # <<>>) =>
        /\ DOMAIN writes = 1..(2 * Len(pairs))
        /\ \A s \in DOMAIN writes :
              /\ Len(writes[s]) <= 1
              /\ \A k \in 1..Len(writes[s]) :
                    s = writes[s][k][1] + Len(pairs) * writes[s][k][2]
        /\ \A idx1 \in DOMAIN iter : \A idx2 \in 0..1 :
              (idx2 < iter[idx1]) <=> (writes[idx1 + Len(pairs) * idx2] = <<<<idx1, idx2>>>>)
        /\ pc = "histogram" =>
              /\ \A s \in DOMAIN writes : Len(writes[s]) = 1
              /\ rbuff = CorrRows(pairs, positions, boxsize, loc)
              /\ wbuff = CorrWeights(rbuff, loc, args.z)

\* C14's case: the kernel has returned after three iterations, with weights:
\* all six slots hold a sample.
C14_Witness ==
    /\ op = "corr" /\ pc = "histogram" /\ iter # <<>>
    /\ Len(pairs) = 3 /\ Len(wbuff) = 6
    /\ \A s \in 1..6 : Len(writes[s]) = 1 /\ rbuff[s].i # 0

\* The weight of a sample from the caller's weights: (w_i . w_j)^z.
SuppliedWeight(row) ==
    Pow(Dot(Val(weights)[row.i], Val(weights)[row.j]), args.z)

\* C15: whenever the kernel has run over at least one pair, the samples are
\* rotated if and only if the caller supplied orientations (by the rotation
\* of particle i's orientation), and the histogram is weighted, by
\* (w_i . w_j)^z, if and only if the caller supplied weights: the
\* placeholders of absent orientations and weights are never taken for data
\* nor data for a placeholder. corr's kernel never runs for one particle.
C15_SuppliedIffUsed ==
    (KernelDone /\ Len(pairs) >= 1) =>
        /\ Rotate(loc.p, positions) <=> ~IsNone(orientations)
        /\ \A s \in 1..Len(rbuff) :
              rbuff[s].rij = IF IsNone(orientations) THEN Exact(rbuff[s].d)
                             ELSE Rotated(op, Val(orientations)[rbuff[s].i], rbuff[s].d)
        /\ (wbuff # <<>>) <=> ~IsNone(weights)
        /\ ~IsNone(weights) =>
              /\ Len(wbuff) = Len(rbuff)
              /\ \A s \in 1..Len(rbuff) : wbuff[s] = SuppliedWeight(rbuff[s])
        /\ op = "corr" => Len(positions) >= 2
        /\ CallReturned =>
              count = Histogram(rbuff,
                                IF IsNone(weights) THEN <<>>
                                ELSE [s \in 1..Len(rbuff) |-> SuppliedWeight(rbuff[s])],
                                HistAxes, loc)

\* C15's case: corr returned for two particles with weights and without
\* orientations: the samples are not rotated and the counts are weighted.
C15_Witness ==
    /\ CallReturned /\ op = "corr" /\ Len(positions) = 2
    /\ IsNone(orientations) /\ ~IsNone(weights)
    /\ Len(loc.p) = 1 /\ ~Rotate(loc.p, positions)
    /\ Len(wbuff) = 2 /\ wbuff[1] # 0
    /\ \E cell \in DOMAIN count : count[cell] = 2 * wbuff[1]

====
